---- MODULE Spec2Model ----
(***************************************************************************)
(* Model of ChatGroupOrchestrator                                          *)
(* (promptflow/orchestrator/_chat_group_orchestrator.py): construction,    *)
(* the per-line round-robin turn loop with conversation-history            *)
(* propagation, result assembly, and destroy().                            *)
(*                                                                         *)
(* Python dicts are functions; a dict with string keys is a record.  The   *)
(* outputs dict has int keys (turn indices) and one string key, so its     *)
(* keys are tagged: IntKey(i), StrKey(s).  Python's None is the record     *)
(* None.  The executor proxies, the batch input resolver and the caller    *)
(* are the environment: the executor returns one of TurnResults or         *)
(* raises, the caller picks raw inputs from RawInputs.                     *)
(***************************************************************************)
EXTENDS Integers, Sequences, FiniteSets, TLC

\* ---------------------------------------------------------------- bounds
MaxRoles == 3
MaxTurn == 3
MaxLines == 2
ConcMaxTurn == 2

\* ------------------------------------------------------------- constants
CONVERSATION_HISTORY_EXPRESSION == "${parent.conversation_history}"
CONVERSATION_HISTORY_OUTPUT_KEY == "conversation_history"

None == [none |-> TRUE]
IntKey(i) == <<"int", i>>
StrKey(s) == <<"str", s>>

\* dict.update: keys of e override keys of d
DictUpdate(d, e) ==
  [k \in (DOMAIN d) \cup (DOMAIN e) |-> IF k \in DOMAIN e THEN e[k] ELSE d[k]]

\* --------------------------------------------------------- environment
\* Chat roles the caller may configure.  inputs_mapping is an ordered list
\* of <<flow input name, expression>> (dict insertion order); flow_inputs
\* gives the default of every flow input that has one.
RoleUser ==
  [role |-> "user", name |-> "simulator", stop_signal |-> "bye",
   inputs_mapping |-> << <<"question", "${data.topic}">>,
                         <<"chat_history", CONVERSATION_HISTORY_EXPRESSION>> >>,
   flow_inputs |-> [question |-> "q0", style |-> "plain"]]
RoleAssistant ==
  [role |-> "assistant", name |-> "copilot", stop_signal |-> "end",
   inputs_mapping |-> << <<"history", CONVERSATION_HISTORY_EXPRESSION>>,
                         <<"tone", "calm">> >>,
   flow_inputs |-> [tone |-> "warm", lang |-> "en"]]
RoleEnd ==
  [role |-> "end", name |-> "closer", stop_signal |-> "end",
   inputs_mapping |-> << <<"chat_history", CONVERSATION_HISTORY_EXPRESSION>> >>,
   flow_inputs |-> [style |-> "plain"]]
RoleNoHistory ==
  [role |-> "user", name |-> "nohist", stop_signal |-> "bye",
   inputs_mapping |-> << <<"question", "${data.topic}">> >>,
   flow_inputs |-> [question |-> "q0"]]
RoleTwoHistory ==
  [role |-> "assistant", name |-> "twohist", stop_signal |-> "end",
   inputs_mapping |-> << <<"h1", CONVERSATION_HISTORY_EXPRESSION>>,
                         <<"h2", CONVERSATION_HISTORY_EXPRESSION>> >>,
   flow_inputs |-> [lang |-> "en"]]
RoleSet == {RoleUser, RoleAssistant, RoleEnd, RoleNoHistory, RoleTwoHistory}

\* Raw input lines the caller may pass.
RawInputs == {[topic |-> "tea"], [topic |-> "rain"]}

\* Results an exec_line_async call may return.
TurnResults ==
  { [output |-> [msg |-> "hi"],
     aggregation_inputs |-> [score |-> "1"],
     node_run_infos |-> "nodes_a", run_info |-> "run_a"],
    [output |-> [msg |-> "ok", note |-> "bye"],
     aggregation_inputs |-> [score |-> "2"],
     node_run_infos |-> "nodes_b", run_info |-> "run_b"],
    [output |-> [role |-> "narrator", msg |-> "end"],
     aggregation_inputs |-> [score |-> "3"],
     node_run_infos |-> "nodes_c", run_info |-> "run_c"] }

LineIds == 0 .. (MaxLines - 1)
RunId == "run0"

\* ------------------------------------------------------------- variables
VARIABLES
  \* scheduler object
  spc,                 \* "new" | "ready" | "failed"   (constructor outcome)
  ctor_error,          \* exception raised by __init__, or "none"
  chat_group_roles,    \* self._chat_group_roles
  max_turn,            \* self._max_turn
  executor_proxies,    \* self._executor_proxies
  create_log,          \* factory calls made so far (role positions)
  \* one _schedule_line_runs call per line index
  pc,                  \* "idle" | "loop" | "await" | "assemble" | "returned" | "raised" | "released"
  inputs,              \* raw input of the call
  turn,                \* loop variable
  batch_inputs,        \* resolved input per role
  conversation_history,
  outputs,
  aggregation_inputs,
  current_line_result,
  line_error,          \* exception the call raised, or "none"
  line_result,         \* LineResult the call returned, or None
  exec_calls,          \* exec_line_async calls issued, as seen by the proxy
  exec_returns,        \* results those calls returned, in completion order
  aliased,             \* role positions whose history slot IS the history list
  exec_error_context,  \* what the exception of a failed call carries at the caller
  \* destroy()
  dpc,                 \* "idle" | "loop" | "await" | "done" | "raised"
  di,                  \* position in self._executor_proxies
  destroy_log          \* <<"begin"|"end"|"fail", handle id>> events

svars == <<spc, ctor_error, chat_group_roles, max_turn, executor_proxies, create_log>>
lvars == <<pc, inputs, turn, batch_inputs, conversation_history, outputs,
           aggregation_inputs, current_line_result, line_error, line_result,
           exec_calls, exec_returns, aliased, exec_error_context>>
dvars == <<dpc, di, destroy_log>>
vars == <<spc, ctor_error, chat_group_roles, max_turn, executor_proxies, create_log,
          pc, inputs, turn, batch_inputs, conversation_history, outputs,
          aggregation_inputs, current_line_result, line_error, line_result,
          exec_calls, exec_returns, aliased, exec_error_context,
          dpc, di, destroy_log>>

\* all sequences over S of length 0..n
SeqsUpTo(S, n) == UNION {[1..k -> S] : k \in 0..n}

\* ----------------------------------------------------------- construction
\* ProxyFactory.create_executor_proxy for the role at position i (0-based)
CreateProxy(i, chat_role) == [id |-> i, flow |-> chat_role.name]

\* _create_executor_proxy: one proxy per role, in role order
CreateExecutorProxy(roles) == [i \in 1..Len(roles) |-> CreateProxy(i - 1, roles[i])]

InvalidRoleCountOffByOne(roles) == Len(roles) < 1
InvalidRoleCount(roles) == Len(roles) < 2

Init ==
  /\ spc = "new"
  /\ ctor_error = "none"
  /\ chat_group_roles \in SeqsUpTo(RoleSet, MaxRoles)
  /\ max_turn \in 0..MaxTurn
  /\ executor_proxies = <<>>
  /\ create_log = <<>>
  /\ pc = [l \in LineIds |-> "idle"]
  /\ inputs = [l \in LineIds |-> None]
  /\ turn = [l \in LineIds |-> 0]
  /\ batch_inputs = [l \in LineIds |-> <<>>]
  /\ conversation_history = [l \in LineIds |-> <<>>]
  /\ outputs = [l \in LineIds |-> <<>>]
  /\ aggregation_inputs = [l \in LineIds |-> <<>>]
  /\ current_line_result = [l \in LineIds |-> None]
  /\ line_error = [l \in LineIds |-> "none"]
  /\ line_result = [l \in LineIds |-> None]
  /\ exec_calls = [l \in LineIds |-> <<>>]
  /\ exec_returns = [l \in LineIds |-> <<>>]
  /\ aliased = [l \in LineIds |-> {}]
  /\ exec_error_context = [l \in LineIds |-> <<>>]
  /\ dpc = "idle"
  /\ di = 0
  /\ destroy_log = <<>>

\* __init__
Construct ==
  /\ spc = "new"
  /\ IF InvalidRoleCount(chat_group_roles)
       THEN /\ spc' = "failed"
            /\ ctor_error' = "InvalidChatRoleCount"
            /\ UNCHANGED <<executor_proxies, create_log>>
       ELSE /\ spc' = "ready"
            /\ executor_proxies' = CreateExecutorProxy(chat_group_roles)
            /\ create_log' = [i \in 1..Len(chat_group_roles) |-> i - 1]
            /\ UNCHANGED ctor_error
  /\ UNCHANGED <<chat_group_roles, max_turn>>
  /\ UNCHANGED lvars
  /\ UNCHANGED dvars

\* ------------------------------------------------------ input resolution
\* list(inputs_mapping.values())
MappingValues(m) == [i \in 1..Len(m) |-> m[i][2]]
MappingKeys(m) == {m[i][1] : i \in 1..Len(m)}
MappingGet(m, k) == m[CHOOSE i \in 1..Len(m) : m[i][1] = k][2]

\* list.count(v)
Count(s, v) == Cardinality({i \in 1..Len(s) : s[i] = v})

\* expressions the resolver reads from the raw line
DataRefs == [e \in {"${data.topic}"} |-> "topic"]

\* BatchInputsProcessor._process_batch_inputs_line: the history slot starts
\* as an empty list, a data reference reads the raw line, anything else is a
\* literal.
ResolveExpr(raw, e) ==
  IF e = CONVERSATION_HISTORY_EXPRESSION THEN <<>>
  ELSE IF e \in DOMAIN DataRefs THEN raw[DataRefs[e]]
  ELSE e
ProcessBatchInputsLine(raw, m) ==
  [k \in MappingKeys(m) |-> ResolveExpr(raw, MappingGet(m, k))]

\* apply_default_value_for_input: defaults fill the inputs left unset
ApplyDefaultValueForInput(flow_inputs, batch_input) ==
  [k \in (DOMAIN flow_inputs) \cup (DOMAIN batch_input) |->
     IF k \in DOMAIN batch_input THEN batch_input[k] ELSE flow_inputs[k]]

ResolvedBatchInput(chat_role, raw) ==
  ApplyDefaultValueForInput(chat_role.flow_inputs,
                            ProcessBatchInputsLine(raw, chat_role.inputs_mapping))

MappingErrorMissingOnly(chat_role) ==
  IF Count(MappingValues(chat_role.inputs_mapping), CONVERSATION_HISTORY_EXPRESSION) = 0
    THEN "MissingConversationHistoryExpression"
  ELSE "none"

\* the two checks of _process_batch_inputs on one role
MappingError(chat_role) ==
  LET vals == MappingValues(chat_role.inputs_mapping) IN
  IF Count(vals, CONVERSATION_HISTORY_EXPRESSION) = 0
    THEN "MissingConversationHistoryExpression"
  ELSE IF Count(vals, CONVERSATION_HISTORY_EXPRESSION) > 1
    THEN "MultipleConversationHistoryInputsMapping"
  ELSE "none"

\* _process_batch_inputs: roles are visited in order; the first role that
\* fails a check raises, otherwise its resolved input is appended.
RECURSIVE ProcessRolesFrom(_, _, _, _)
ProcessRolesFrom(roles, raw, i, acc) ==
  IF i > Len(roles) THEN [error |-> "none", batch_inputs |-> acc]
  ELSE IF MappingError(roles[i]) # "none"
    THEN [error |-> MappingError(roles[i]), batch_inputs |-> acc]
  ELSE ProcessRolesFrom(roles, raw, i + 1, Append(acc, ResolvedBatchInput(roles[i], raw)))

ProcessBatchInputsMissingFirst(roles, raw) ==
  IF \E i \in 1..Len(roles) :
       Count(MappingValues(roles[i].inputs_mapping), CONVERSATION_HISTORY_EXPRESSION) = 0
    THEN [error |-> "MissingConversationHistoryExpression", batch_inputs |-> <<>>]
    ELSE ProcessRolesFrom(roles, raw, 1, <<>>)

ProcessBatchInputs(roles, raw) == ProcessRolesFrom(roles, raw, 1, <<>>)

\* ------------------------------------------------------------- turn loop
RoleIndexOffByOne(t, total_roles) == (t + 1) % total_roles

\* role_index = turn % total_roles
RoleIndex(t, total_roles) == t % total_roles

\* next((key for key, value in inputs_mapping.items() if value == EXPR), None)
HasHistoryKey(m) == \E i \in 1..Len(m) : m[i][2] = CONVERSATION_HISTORY_EXPRESSION
ConversationHistoryKey(m) ==
  LET first == CHOOSE i \in 1..Len(m) :
                 /\ m[i][2] = CONVERSATION_HISTORY_EXPRESSION
                 /\ \A j \in 1..(i - 1) : m[j][2] # CONVERSATION_HISTORY_EXPRESSION
  IN m[first][1]

SetHistorySkipped(chat_role_input, key, history) == chat_role_input

\* chat_role_input[conversation_history_key] = conversation_history
SetHistory(chat_role_input, key, history) ==
  [k \in (DOMAIN chat_role_input) \cup {key} |->
     IF k = key THEN history ELSE chat_role_input[k]]

CurrentTurnRoleWins(chat_role, result) == DictUpdate(result.output, [role |-> chat_role.role])

\* current_turn = {"role": chat_role.role}; current_turn.update(output)
CurrentTurn(chat_role, result) == DictUpdate([role |-> chat_role.role], result.output)

PrependHistory(history, current_turn) == <<current_turn>> \o history

\* conversation_history.append(current_turn)
AppendHistory(history, current_turn) == Append(history, current_turn)

\* outputs.update({index: current_turn})
UpdateOutputs(outs, index, current_turn) ==
  DictUpdate(outs, [k \in {IntKey(index)} |-> current_turn])

UpdateAggregationInputsWithOutput(agg, index, result) ==
  DictUpdate(agg, [k \in {IntKey(index)} |-> result.output])

\* aggregation_inputs.update({index: result.aggregation_inputs})
UpdateAggregationInputs(agg, index, result) ==
  DictUpdate(agg, [k \in {IntKey(index)} |-> result.aggregation_inputs])

StopSignalOfAnyRole(chat_role, result) ==
  \E k \in DOMAIN result.output, i \in 1..Len(chat_group_roles) :
    result.output[k] = chat_group_roles[i].stop_signal

StopSignalInRecord(chat_role, result) ==
  \E k \in DOMAIN CurrentTurn(chat_role, result) :
    CurrentTurn(chat_role, result)[k] = chat_role.stop_signal

\* any(value == chat_role.stop_signal for value in result.output.values())
StopSignalMatched(chat_role, result) ==
  \E k \in DOMAIN result.output : result.output[k] = chat_role.stop_signal

\* the caller runs the lines one at a time, in index order, and tears down
\* only between lines
Quiescent(l) == pc[l] \in {"idle", "released"}
InOrder(l) ==
  /\ \A m \in LineIds : m < l => pc[m] = "released"
  /\ \A m \in LineIds : m > l => pc[m] = "idle"

ScheduleLineSharedHistory(l, raw) ==
  /\ spc = "ready"
  /\ dpc = "idle"
  /\ pc[l] = "idle"
  /\ LET r == ProcessBatchInputs(chat_group_roles, raw) IN
       /\ inputs' = [inputs EXCEPT ![l] = raw]
       /\ outputs' = [outputs EXCEPT ![l] = <<>>]
       /\ aggregation_inputs' = [aggregation_inputs EXCEPT ![l] = <<>>]
       /\ current_line_result' = [current_line_result EXCEPT ![l] = None]
       /\ conversation_history' =
            [conversation_history EXCEPT ![l] = conversation_history[(l + 1) % MaxLines]]
       /\ batch_inputs' = [batch_inputs EXCEPT ![l] = r.batch_inputs]
       /\ turn' = [turn EXCEPT ![l] = 0]
       /\ IF r.error # "none"
            THEN /\ pc' = [pc EXCEPT ![l] = "raised"]
                 /\ line_error' = [line_error EXCEPT ![l] = r.error]
            ELSE /\ pc' = [pc EXCEPT ![l] = "loop"]
                 /\ UNCHANGED line_error
  /\ UNCHANGED <<line_result, exec_calls, exec_returns, aliased, exec_error_context>>
  /\ UNCHANGED svars
  /\ UNCHANGED dvars

\* _schedule_line_runs, lines 107-116: fresh locals, resolve every role
ScheduleLine(l, raw) ==
  /\ spc = "ready"
  /\ dpc = "idle"
  /\ pc[l] = "idle"
  /\ LET r == ProcessBatchInputs(chat_group_roles, raw) IN
       /\ inputs' = [inputs EXCEPT ![l] = raw]
       /\ outputs' = [outputs EXCEPT ![l] = <<>>]
       /\ aggregation_inputs' = [aggregation_inputs EXCEPT ![l] = <<>>]
       /\ current_line_result' = [current_line_result EXCEPT ![l] = None]
       /\ conversation_history' = [conversation_history EXCEPT ![l] = <<>>]
       /\ batch_inputs' = [batch_inputs EXCEPT ![l] = r.batch_inputs]
       /\ turn' = [turn EXCEPT ![l] = 0]
       /\ IF r.error # "none"
            THEN /\ pc' = [pc EXCEPT ![l] = "raised"]
                 /\ line_error' = [line_error EXCEPT ![l] = r.error]
            ELSE /\ pc' = [pc EXCEPT ![l] = "loop"]
                 /\ UNCHANGED line_error
  /\ UNCHANGED <<line_result, exec_calls, exec_returns, aliased, exec_error_context>>
  /\ UNCHANGED svars
  /\ UNCHANGED dvars

LoopExhaustedOffByOne(t, m) == t > m

\* for turn in range(self._max_turn): no further iteration
LoopExhausted(t, m) == t >= m

\* lines 118-143: loop head, history injection, and the executor call
IssueTurn(l) ==
  /\ pc[l] = "loop"
  /\ IF LoopExhausted(turn[l], max_turn)
       THEN /\ pc' = [pc EXCEPT ![l] = "assemble"]
            /\ UNCHANGED <<batch_inputs, exec_calls, aliased, line_error>>
       ELSE LET role_index == RoleIndex(turn[l], Len(chat_group_roles))
                executor_proxy == executor_proxies[role_index + 1]
                chat_role == chat_group_roles[role_index + 1]
                chat_role_input == batch_inputs[l][role_index + 1]
            IN IF ~HasHistoryKey(chat_role.inputs_mapping)
                 THEN /\ pc' = [pc EXCEPT ![l] = "raised"]
                      /\ line_error' = [line_error EXCEPT
                                          ![l] = "MissingConversationHistoryExpression"]
                      /\ UNCHANGED <<batch_inputs, exec_calls, aliased>>
                 ELSE LET key == ConversationHistoryKey(chat_role.inputs_mapping)
                          new_input == SetHistory(chat_role_input, key,
                                                  conversation_history[l])
                      IN /\ batch_inputs' =
                              [batch_inputs EXCEPT ![l][role_index + 1] = new_input]
                         /\ aliased' = [aliased EXCEPT ![l] = @ \cup {role_index + 1}]
                         /\ exec_calls' =
                              [exec_calls EXCEPT ![l] =
                                 Append(@, [proxy |-> executor_proxy,
                                            input |-> new_input,
                                            line_index |-> l,
                                            run_id |-> RunId])]
                         /\ pc' = [pc EXCEPT ![l] = "await"]
                         /\ UNCHANGED line_error
  /\ UNCHANGED <<inputs, turn, conversation_history, outputs, aggregation_inputs,
                 current_line_result, line_result, exec_returns, exec_error_context>>
  /\ UNCHANGED svars
  /\ UNCHANGED dvars

SyncAliasesCopy(role_inputs, alias, history) == role_inputs

\* every input slot that is the history list object shows the new record
SyncAliases(role_inputs, alias, history) ==
  [i \in 1..Len(role_inputs) |->
     IF i \in alias
       THEN SetHistory(role_inputs[i],
                       ConversationHistoryKey(chat_group_roles[i].inputs_mapping),
                       history)
       ELSE role_inputs[i]]

\* lines 143-161: the call returns, _process_flow_outputs, stop check
ExecReturn(l, result) ==
  /\ pc[l] = "await"
  /\ LET role_index == RoleIndex(turn[l], Len(chat_group_roles))
         chat_role == chat_group_roles[role_index + 1]
         current_turn == CurrentTurn(chat_role, result)
         history == AppendHistory(conversation_history[l], current_turn)
     IN /\ current_line_result' = [current_line_result EXCEPT ![l] = result]
        /\ conversation_history' = [conversation_history EXCEPT ![l] = history]
        /\ batch_inputs' = [batch_inputs EXCEPT
                              ![l] = SyncAliases(@, aliased[l], history)]
        /\ outputs' = [outputs EXCEPT ![l] = UpdateOutputs(@, turn[l], current_turn)]
        /\ aggregation_inputs' =
             [aggregation_inputs EXCEPT ![l] = UpdateAggregationInputs(@, turn[l], result)]
        /\ exec_returns' = [exec_returns EXCEPT ![l] = Append(@, result)]
        /\ IF StopSignalMatched(chat_role, result)
             THEN /\ pc' = [pc EXCEPT ![l] = "assemble"]
                  /\ UNCHANGED turn
             ELSE /\ pc' = [pc EXCEPT ![l] = "loop"]
                  /\ turn' = [turn EXCEPT ![l] = @ + 1]
  /\ UNCHANGED <<inputs, line_error, line_result, exec_calls, aliased,
                 exec_error_context>>
  /\ UNCHANGED svars
  /\ UNCHANGED dvars

\* what an exception raised inside exec_line_async can carry: the proxy is
\* given the input, the line index and the run id, nothing else
ExecutorErrorContexts(l) == {<<>>, [line_index |-> l, run_id |-> RunId]}

ExecRaiseRetried(l, ctx) ==
  /\ pc[l] = "await"
  /\ pc' = [pc EXCEPT ![l] = "loop"]
  /\ UNCHANGED <<inputs, turn, batch_inputs, conversation_history, outputs,
                 aggregation_inputs, current_line_result, line_result, line_error,
                 exec_calls, exec_returns, aliased, exec_error_context>>
  /\ UNCHANGED svars
  /\ UNCHANGED dvars

\* line 143: the call raises; nothing catches it, so the caller gets the
\* proxy's exception as it is
ExecRaise(l, ctx) ==
  /\ pc[l] = "await"
  /\ pc' = [pc EXCEPT ![l] = "raised"]
  /\ line_error' = [line_error EXCEPT ![l] = "ExecutorError"]
  /\ exec_error_context' = [exec_error_context EXCEPT ![l] = ctx]
  /\ UNCHANGED <<inputs, turn, batch_inputs, conversation_history, outputs,
                 aggregation_inputs, current_line_result, line_result,
                 exec_calls, exec_returns, aliased>>
  /\ UNCHANGED svars
  /\ UNCHANGED dvars

CancelRecordsTurn(l) ==
  /\ pc[l] = "await"
  /\ pc' = [pc EXCEPT ![l] = "raised"]
  /\ line_error' = [line_error EXCEPT ![l] = "CancelledError"]
  /\ conversation_history' =
       [conversation_history EXCEPT
          ![l] = Append(@, [role |-> chat_group_roles[
                              RoleIndex(turn[l], Len(chat_group_roles)) + 1].role])]
  /\ UNCHANGED <<inputs, turn, batch_inputs, outputs,
                 aggregation_inputs, current_line_result, line_result,
                 exec_calls, exec_returns, aliased, exec_error_context>>
  /\ UNCHANGED svars
  /\ UNCHANGED dvars

\* line 143: the task is cancelled while it awaits the proxy; CancelledError
\* is raised at the await and nothing catches it
Cancel(l) ==
  /\ pc[l] = "await"
  /\ pc' = [pc EXCEPT ![l] = "raised"]
  /\ line_error' = [line_error EXCEPT ![l] = "CancelledError"]
  /\ UNCHANGED <<inputs, turn, batch_inputs, conversation_history, outputs,
                 aggregation_inputs, current_line_result, line_result,
                 exec_calls, exec_returns, aliased, exec_error_context>>
  /\ UNCHANGED svars
  /\ UNCHANGED dvars

\* LineResult(...) of lines 169-174
MakeLineResult(outs, agg, last) ==
  [output |-> outs, aggregation_inputs |-> agg,
   node_run_infos |-> last.node_run_infos, run_info |-> last.run_info]

\* outputs.update({CONVERSATION_HISTORY_OUTPUT_KEY: conversation_history})
AddHistoryOutput(outs, history) ==
  DictUpdate(outs, [k \in {StrKey(CONVERSATION_HISTORY_OUTPUT_KEY)} |-> history])

\* lines 163-174: publish the history and build the LineResult
Assemble(l) ==
  /\ pc[l] = "assemble"
  /\ outputs' = [outputs EXCEPT ![l] = AddHistoryOutput(@, conversation_history[l])]
  /\ IF current_line_result[l] = None
       THEN /\ pc' = [pc EXCEPT ![l] = "raised"]
            /\ line_error' = [line_error EXCEPT ![l] = "AttributeError"]
            /\ UNCHANGED line_result
       ELSE /\ pc' = [pc EXCEPT ![l] = "returned"]
            /\ line_result' = [line_result EXCEPT
                 ![l] = MakeLineResult(outputs'[l], aggregation_inputs[l],
                                       current_line_result[l])]
            /\ UNCHANGED line_error
  /\ UNCHANGED <<inputs, turn, batch_inputs, conversation_history,
                 aggregation_inputs, current_line_result, exec_calls,
                 exec_returns, aliased, exec_error_context>>
  /\ UNCHANGED svars
  /\ UNCHANGED dvars

\* the caller has taken the outcome; the call's frame is gone
Release(l) ==
  /\ pc[l] \in {"returned", "raised"}
  /\ pc' = [pc EXCEPT ![l] = "released"]
  /\ inputs' = [inputs EXCEPT ![l] = None]
  /\ turn' = [turn EXCEPT ![l] = 0]
  /\ batch_inputs' = [batch_inputs EXCEPT ![l] = <<>>]
  /\ conversation_history' = [conversation_history EXCEPT ![l] = <<>>]
  /\ outputs' = [outputs EXCEPT ![l] = <<>>]
  /\ aggregation_inputs' = [aggregation_inputs EXCEPT ![l] = <<>>]
  /\ current_line_result' = [current_line_result EXCEPT ![l] = None]
  /\ line_error' = [line_error EXCEPT ![l] = "none"]
  /\ line_result' = [line_result EXCEPT ![l] = None]
  /\ exec_calls' = [exec_calls EXCEPT ![l] = <<>>]
  /\ exec_returns' = [exec_returns EXCEPT ![l] = <<>>]
  /\ aliased' = [aliased EXCEPT ![l] = {}]
  /\ exec_error_context' = [exec_error_context EXCEPT ![l] = <<>>]
  /\ UNCHANGED svars
  /\ UNCHANGED dvars

\* ---------------------------------------------------------------- destroy
\* the proxy the for loop of destroy() visits at position i (0-based)
DestroyTargetReversed(proxies, i) == proxies[Len(proxies) - i]
DestroyTarget(proxies, i) == proxies[i + 1]

\* destroy() is entered
DestroyCall ==
  /\ spc = "ready"
  /\ dpc = "idle"
  /\ \A l \in LineIds : Quiescent(l)
  /\ dpc' = "loop"
  /\ di' = 0
  /\ UNCHANGED destroy_log
  /\ UNCHANGED svars
  /\ UNCHANGED lvars

\* line 86-87: loop head and the call of executor_proxy.destroy()
DestroyIssue ==
  /\ dpc = "loop"
  /\ IF di >= Len(executor_proxies)
       THEN /\ dpc' = "done"
            /\ UNCHANGED destroy_log
       ELSE /\ dpc' = "await"
            /\ destroy_log' = Append(destroy_log, <<"begin", DestroyTarget(executor_proxies, di).id>>)
  /\ UNCHANGED di
  /\ UNCHANGED svars
  /\ UNCHANGED lvars

\* the awaited destroy() returns
DestroyReturn ==
  /\ dpc = "await"
  /\ destroy_log' = Append(destroy_log, <<"end", DestroyTarget(executor_proxies, di).id>>)
  /\ di' = di + 1
  /\ dpc' = "loop"
  /\ UNCHANGED svars
  /\ UNCHANGED lvars

\* the awaited destroy() raises; nothing catches it
DestroyRaise ==
  /\ dpc = "await"
  /\ destroy_log' = Append(destroy_log, <<"fail", DestroyTarget(executor_proxies, di).id>>)
  /\ dpc' = "raised"
  /\ UNCHANGED di
  /\ UNCHANGED svars
  /\ UNCHANGED lvars

\* ---------------------------------------------------------- specification
Next ==
  \/ Construct
  \/ \E l \in LineIds, raw \in RawInputs : InOrder(l) /\ ScheduleLine(l, raw)
  \/ \E l \in LineIds : IssueTurn(l)
  \/ \E l \in LineIds, result \in TurnResults : ExecReturn(l, result)
  \/ \E l \in LineIds : \E ctx \in ExecutorErrorContexts(l) : ExecRaise(l, ctx)
  \/ \E l \in LineIds : Cancel(l)
  \/ \E l \in LineIds : Assemble(l)
  \/ \E l \in LineIds : Release(l)
  \/ DestroyCall
  \/ DestroyIssue
  \/ DestroyReturn
  \/ DestroyRaise

Spec == Init /\ [][Next]_vars

\* Several _schedule_line_runs coroutines of one orchestrator in flight at
\* once: a batch driver may start any line at any time, and the coroutines
\* interleave at their awaits.  The environment is a part of the one of
\* Spec: one raw line, two of the results, one kind of executor exception.
ConcRawInputs == {[topic |-> "tea"]}
ConcTurnResults == {r \in TurnResults : "role" \notin DOMAIN r.output}
InitConc ==
  /\ Init
  /\ chat_group_roles \in [1..2 -> {RoleUser, RoleAssistant}]
  /\ max_turn \in 1..ConcMaxTurn

NextConc ==
  \/ Construct
  \/ \E l \in LineIds, raw \in ConcRawInputs : ScheduleLine(l, raw)
  \/ \E l \in LineIds : IssueTurn(l)
  \/ \E l \in LineIds, result \in ConcTurnResults : ExecReturn(l, result)
  \/ \E l \in LineIds : ExecRaise(l, <<>>)
  \/ \E l \in LineIds : Assemble(l)
  \/ \E l \in LineIds : Release(l)

SpecConc == InitConc /\ [][NextConc]_vars

\* A proxy that runs the flow in the orchestrator's process holds, in the
\* input it was given, the orchestrator's own conversation_history list
\* (line 138 stores the list, not a copy).  While the call is awaited the
\* flow may change that list in place; here it deletes the records from
\* position n on (del history[n:]).
ExecMutatesHistory(l, n) ==
  /\ pc[l] = "await"
  /\ n < Len(conversation_history[l])
  /\ LET history == SubSeq(conversation_history[l], 1, n) IN
       /\ conversation_history' = [conversation_history EXCEPT ![l] = history]
       /\ batch_inputs' = [batch_inputs EXCEPT
                             ![l] = SyncAliases(@, aliased[l], history)]
  /\ UNCHANGED <<pc, inputs, turn, outputs, aggregation_inputs,
                 current_line_result, line_error, line_result, exec_calls,
                 exec_returns, aliased, exec_error_context>>
  /\ UNCHANGED svars
  /\ UNCHANGED dvars

NextMutate ==
  \/ Next
  \/ \E l \in LineIds, n \in 0..MaxTurn : ExecMutatesHistory(l, n)

SpecMutate == Init /\ [][NextMutate]_vars

\* Every executor call returns: no exception and no cancellation reaches the
\* await, and the event loop keeps running the coroutine of a started call.
NextLive ==
  \/ Construct
  \/ \E l \in LineIds, raw \in ConcRawInputs : InOrder(l) /\ ScheduleLine(l, raw)
  \/ \E l \in LineIds : IssueTurn(l)
  \/ \E l \in LineIds, result \in TurnResults : ExecReturn(l, result)
  \/ \E l \in LineIds : Assemble(l)
  \/ \E l \in LineIds : Release(l)

Fairness ==
  \A l \in LineIds :
    /\ WF_vars(IssueTurn(l))
    /\ WF_vars(\E result \in TurnResults : ExecReturn(l, result))
    /\ WF_vars(Assemble(l))

SpecLive == Init /\ [][NextLive]_vars /\ Fairness

TypeOK ==
  /\ spc \in {"new", "ready", "failed"}
  /\ \A l \in LineIds : pc[l] \in {"idle", "loop", "await", "assemble",
                                   "returned", "raised", "released"}
  /\ dpc \in {"idle", "loop", "await", "done", "raised"}

\* ================================================================ claims
NRoles == Len(chat_group_roles)
ActiveRole(t) == chat_group_roles[(t % NRoles) + 1]
HistoryBindings(r) ==
  Cardinality({i \in 1..Len(r.inputs_mapping) :
                 r.inputs_mapping[i][2] = CONVERSATION_HISTORY_EXPRESSION})
HistoryKeyOf(r) ==
  r.inputs_mapping[CHOOSE i \in 1..Len(r.inputs_mapping) :
                     r.inputs_mapping[i][2] = CONVERSATION_HISTORY_EXPRESSION][1]
ValidMappings == \A i \in 1..NRoles : HistoryBindings(chat_group_roles[i]) = 1
OutputHasValue(o, v) == \E f \in DOMAIN o : o[f] = v
\* turn t (0-based) of line l returned an output holding the active role's stop signal
StopsAt(l, t) == OutputHasValue(exec_returns[l][t + 1].output, ActiveRole(t).stop_signal)
TurnsReturned(l) == Len(exec_returns[l])
TurnKeys(k) == {IntKey(t) : t \in 0..(k - 1)}

\* C1: with N >= 2 validly mapped roles and max_turn = M >= 1, a line that
\* returns without any turn's output holding the active role's stop signal
\* has made exactly M executor calls, the call of turn t on the proxy of
\* role t mod N and with that role's resolved input.
C1_RoundRobin ==
  \A l \in LineIds :
    ( /\ pc[l] = "returned"
      /\ NRoles >= 2 /\ max_turn >= 1 /\ ValidMappings
      /\ \A t \in 0..(TurnsReturned(l) - 1) : ~StopsAt(l, t) )
    => /\ Len(exec_calls[l]) = max_turn
       /\ \A t \in 0..(max_turn - 1) :
            LET call == exec_calls[l][t + 1]
                r == ActiveRole(t)
                resolved == ResolvedBatchInput(r, inputs[l])
            IN /\ call.proxy = executor_proxies[(t % NRoles) + 1]
               /\ call.proxy.id = t % NRoles
               /\ DOMAIN call.input = DOMAIN resolved
               /\ \A k \in (DOMAIN resolved) \ {HistoryKeyOf(r)} :
                    call.input[k] = resolved[k]

C1_Witness ==
  \E l \in LineIds :
    /\ pc[l] = "returned"
    /\ NRoles = 3 /\ max_turn = MaxTurn
    /\ Len(exec_calls[l]) = MaxTurn
    /\ \A t \in 0..(TurnsReturned(l) - 1) : ~StopsAt(l, t)
    /\ chat_group_roles[1] # chat_group_roles[2]

\* C2: once a turn's output holds the stop signal of the role active at
\* that turn, no further executor call is made and the line has executed
\* exactly that many turns; as long as no turn has matched its own active
\* role's stop signal (matching another role's does not count) and turns
\* remain, the loop goes on.
C2_StopSignal ==
  \A l \in LineIds :
    /\ \A t \in 0..(TurnsReturned(l) - 1) :
         StopsAt(l, t) =>
           /\ TurnsReturned(l) = t + 1
           /\ Len(exec_calls[l]) = t + 1
           /\ pc[l] \in {"assemble", "returned"}
    /\ ( /\ TurnsReturned(l) >= 1
         /\ TurnsReturned(l) < max_turn
         /\ \A t \in 0..(TurnsReturned(l) - 1) : ~StopsAt(l, t) )
       => pc[l] \in {"loop", "await", "raised"}

C2_Witness ==
  \E l \in LineIds :
    /\ pc[l] = "returned"
    /\ TurnsReturned(l) = 2
    /\ max_turn = 3
    /\ StopsAt(l, 1)
    /\ \E i \in 1..NRoles :
         /\ chat_group_roles[i].stop_signal # ActiveRole(0).stop_signal
         /\ OutputHasValue(exec_returns[l][1].output, chat_group_roles[i].stop_signal)

\* C3 (as claimed): after k completed turns the history has k records and
\* record i maps "role" to the kind tag of role i mod N and holds every
\* output field of turn i with the executor's value.
C3_AsClaimed ==
  \A l \in LineIds :
    /\ Len(conversation_history[l]) = TurnsReturned(l)
    /\ \A i \in 0..(TurnsReturned(l) - 1) :
         LET rec == conversation_history[l][i + 1]
             out == exec_returns[l][i + 1].output
         IN /\ "role" \in DOMAIN rec
            /\ rec["role"] = ActiveRole(i).role
            /\ \A f \in DOMAIN out : f \in DOMAIN rec /\ rec[f] = out[f]

\* C3 (amended): after k completed turns the history has k records in turn
\* order; record i holds exactly the fields of turn i's output, with the
\* executor's values, plus "role"; "role" is the kind tag of role i mod N
\* unless the output has a field named "role", whose value then stands.
C3_HistoryRecords ==
  \A l \in LineIds :
    /\ Len(conversation_history[l]) = TurnsReturned(l)
    /\ \A i \in 0..(TurnsReturned(l) - 1) :
         LET rec == conversation_history[l][i + 1]
             out == exec_returns[l][i + 1].output
         IN /\ DOMAIN rec = (DOMAIN out) \cup {"role"}
            /\ \A f \in DOMAIN out : rec[f] = out[f]
            /\ "role" \notin DOMAIN out => rec["role"] = ActiveRole(i).role

C3_Witness ==
  \E l \in LineIds :
    /\ Len(conversation_history[l]) = 3
    /\ "role" \in DOMAIN exec_returns[l][2].output
    /\ conversation_history[l][2]["role"] # ActiveRole(1).role
    /\ conversation_history[l][3]["role"] = ActiveRole(2).role

\* C4: the history the proxy receives in the call of turn t is exactly the
\* records of turns 0..t-1, and a call is issued only when every earlier
\* call has returned and its record has been appended.
C4_HistorySeenByExecutor ==
  \A l \in LineIds :
    /\ Len(exec_calls[l]) <= TurnsReturned(l) + 1
    /\ Len(exec_calls[l]) <= Len(conversation_history[l]) + 1
    /\ \A t \in 0..(Len(exec_calls[l]) - 1) :
         exec_calls[l][t + 1].input[HistoryKeyOf(ActiveRole(t))]
           = SubSeq(conversation_history[l], 1, t)

C4_Witness ==
  \E l \in LineIds :
    /\ Len(exec_calls[l]) = 3
    /\ pc[l] = "await"
    /\ Len(exec_calls[l][3].input[HistoryKeyOf(ActiveRole(2))]) = 2
    /\ exec_calls[l][1].input[HistoryKeyOf(ActiveRole(0))] = <<>>

\* C5: construction with fewer than 2 roles raises InvalidChatRoleCount
\* with no proxy created; with 2 or more roles it does not raise and one
\* proxy per role exists, created in role order.
C5_RoleCount ==
  spc # "new" =>
    IF NRoles < 2
      THEN /\ spc = "failed"
           /\ ctor_error = "InvalidChatRoleCount"
           /\ create_log = <<>>
           /\ executor_proxies = <<>>
      ELSE /\ spc = "ready"
           /\ ctor_error = "none"
           /\ Len(executor_proxies) = NRoles
           /\ create_log = [i \in 1..NRoles |-> i - 1]
           /\ \A i \in 1..NRoles : executor_proxies[i].id = i - 1

C5_Witness == spc = "failed" /\ NRoles = 1 /\ ctor_error = "InvalidChatRoleCount"

\* C6: when some role, at any position, has zero or several history
\* bindings, a started line has raised a mapping error and no executor call
\* was made for it.
C6_FailFast ==
  \A l \in LineIds :
    ( /\ pc[l] \notin {"idle", "released"}
      /\ ~ValidMappings )
    => /\ pc[l] = "raised"
       /\ line_error[l] \in {"MissingConversationHistoryExpression",
                             "MultipleConversationHistoryInputsMapping"}
       /\ exec_calls[l] = <<>>
       /\ exec_returns[l] = <<>>

C6_Witness ==
  \E l \in LineIds :
    /\ pc[l] = "raised"
    /\ NRoles = 3
    /\ HistoryBindings(chat_group_roles[1]) = 1
    /\ HistoryBindings(chat_group_roles[2]) = 1
    /\ HistoryBindings(chat_group_roles[3]) = 2
    /\ exec_calls[l] = <<>>

\* C7: in a returned LineResult the list under the reserved history key has
\* one record per executed turn and its record t is the record stored under
\* turn index t.
C7_HistoryRoundTrip ==
  \A l \in LineIds :
    pc[l] = "returned" =>
      LET out == line_result[l].output
          h == out[StrKey(CONVERSATION_HISTORY_OUTPUT_KEY)]
          k == TurnsReturned(l)
      IN /\ Len(h) = k
         /\ \A t \in 0..(k - 1) :
              /\ IntKey(t) \in DOMAIN out
              /\ h[t + 1] = out[IntKey(t)]

C7_Witness ==
  \E l \in LineIds :
    /\ pc[l] = "returned"
    /\ TurnsReturned(l) = 3
    /\ line_result[l].output[IntKey(0)] # line_result[l].output[IntKey(2)]
    /\ Len(line_result[l].output[StrKey(CONVERSATION_HISTORY_OUTPUT_KEY)]) = 3

\* C8: a LineResult returned after k >= 1 turns has output keys 0..k-1 plus
\* the reserved key, aggregation inputs keyed 0..k-1 holding what each
\* turn's call returned, and the node/run infos of turn k-1.
C8_LineResult ==
  \A l \in LineIds :
    (pc[l] = "returned" /\ TurnsReturned(l) >= 1) =>
      LET res == line_result[l]
          k == TurnsReturned(l)
      IN /\ DOMAIN res.output =
              TurnKeys(k) \cup {StrKey(CONVERSATION_HISTORY_OUTPUT_KEY)}
         /\ DOMAIN res.aggregation_inputs = TurnKeys(k)
         /\ \A t \in 0..(k - 1) :
              res.aggregation_inputs[IntKey(t)] = exec_returns[l][t + 1].aggregation_inputs
         /\ res.node_run_infos = exec_returns[l][k].node_run_infos
         /\ res.run_info = exec_returns[l][k].run_info

C8_Witness ==
  \E l \in LineIds :
    /\ pc[l] = "returned"
    /\ TurnsReturned(l) = 3
    /\ line_result[l].run_info = exec_returns[l][3].run_info
    /\ exec_returns[l][3].run_info # exec_returns[l][1].run_info
    /\ exec_returns[l][3].run_info # exec_returns[l][2].run_info

DestroyAttempted(id) == \E e \in 1..Len(destroy_log) : destroy_log[e] = <<"begin", id>>

\* C9 (as claimed): when destroy() ends with a failure, the destruction of
\* every proxy has been attempted in that call.
C9_BestEffortDestroy ==
  dpc = "raised" =>
    \A i \in 1..Len(executor_proxies) : DestroyAttempted(executor_proxies[i].id)

ExpectedDestroyLog ==
  [e \in 1..(2 * Len(executor_proxies)) |->
     IF e % 2 = 1 THEN <<"begin", executor_proxies[(e + 1) \div 2].id>>
                  ELSE <<"end", executor_proxies[e \div 2].id>>]

\* C10: a destroy() in which nothing fails destroys each proxy once, in
\* role order, each destroy returning before the next begins; before
\* destroy() is called, whatever lines have run, no proxy has been destroyed.
C10_DestroyOrder ==
  /\ dpc = "idle" => destroy_log = <<>>
  /\ dpc \in {"loop", "await", "done"} =>
       /\ Len(destroy_log) <= Len(ExpectedDestroyLog)
       /\ destroy_log = SubSeq(ExpectedDestroyLog, 1, Len(destroy_log))
  /\ dpc = "done" => destroy_log = ExpectedDestroyLog
  /\ spc = "ready" => Len(executor_proxies) = NRoles

C10_Witness ==
  /\ dpc = "done"
  /\ NRoles = 3
  /\ Len(destroy_log) = 6
  /\ \A l \in LineIds : pc[l] = "released"

\* C11 (as claimed): result assembly is never reached without a turn result;
\* a line of a scheduler with max_turn = 0 ends in a configuration error.
C11_MaxTurnRejected ==
  \A l \in LineIds :
    /\ pc[l] = "assemble" => current_line_result[l] # None
    /\ line_error[l] # "AttributeError"
    /\ (max_turn = 0 /\ pc[l] \notin {"idle", "released"}) =>
         /\ pc[l] = "raised"
         /\ line_error[l] \in {"InvalidChatRoleCount",
                               "MissingConversationHistoryExpression",
                               "MultipleConversationHistoryInputsMapping"}

\* C12: every executor call that was issued has returned, is in flight, or
\* failed; the failed call is the last one of its line (no retry, no later
\* turn), and the line ended with the error and without a LineResult.
C12_NoRetry ==
  \A l \in LineIds :
    /\ pc[l] \in {"loop", "assemble", "returned"} =>
         Len(exec_calls[l]) = TurnsReturned(l)
    /\ pc[l] = "await" => Len(exec_calls[l]) = TurnsReturned(l) + 1
    /\ line_error[l] = "ExecutorError" =>
         /\ pc[l] = "raised"
         /\ Len(exec_calls[l]) = TurnsReturned(l) + 1
         /\ line_result[l] = None

C12_Witness ==
  \E l \in LineIds :
    /\ pc[l] = "raised"
    /\ line_error[l] = "ExecutorError"
    /\ Len(exec_calls[l]) = 2
    /\ Len(conversation_history[l]) = 1
    /\ max_turn = 3
    /\ line_result[l] = None

\* C13 (as claimed): the error of a failed executor call reaches the caller
\* carrying the acting role, the turn number and the line index.
C13_ErrorContext ==
  \A l \in LineIds :
    line_error[l] = "ExecutorError" =>
      {"role", "turn", "line_index"} \subseteq DOMAIN exec_error_context[l]

\* the records a line's own returned turns produce
OwnRecord(l, t) ==
  DictUpdate([role |-> ActiveRole(t).role], exec_returns[l][t + 1].output)

\* C14: however calls of one orchestrator follow or interleave, a call
\* starts with empty history, outputs and aggregation inputs, and these
\* hold exactly the records of the call's own returned turns.
C14_LinePrivate ==
  \A l \in LineIds :
    /\ (pc[l] = "loop" /\ turn[l] = 0) =>
         /\ conversation_history[l] = <<>>
         /\ outputs[l] = <<>>
         /\ aggregation_inputs[l] = <<>>
    /\ pc[l] \in {"loop", "await", "assemble", "returned", "raised"} =>
         /\ Len(conversation_history[l]) = TurnsReturned(l)
         /\ \A t \in 0..(TurnsReturned(l) - 1) :
              /\ conversation_history[l][t + 1] = OwnRecord(l, t)
              /\ outputs[l][IntKey(t)] = OwnRecord(l, t)
              /\ aggregation_inputs[l][IntKey(t)] =
                   exec_returns[l][t + 1].aggregation_inputs
         /\ (DOMAIN outputs[l]) \ {StrKey(CONVERSATION_HISTORY_OUTPUT_KEY)}
              = TurnKeys(TurnsReturned(l))
         /\ DOMAIN aggregation_inputs[l] = TurnKeys(TurnsReturned(l))

C14_Witness ==
  /\ pc[0] = "await"
  /\ pc[1] = "loop"
  /\ turn[1] = 0
  /\ Len(conversation_history[0]) = 1
  /\ conversation_history[1] = <<>>

\* C15: a turn whose executor call was cancelled or failed leaves no
\* history record, no outputs entry and no aggregation entry: in every state
\* the history has one record, and outputs and aggregation inputs one turn
\* key, per executor call of the line that returned.
C15_NoPartialTurn ==
  \A l \in LineIds :
    /\ Len(conversation_history[l]) = TurnsReturned(l)
    /\ \A t \in 0..(Len(exec_calls[l]) - 1) :
         /\ IntKey(t) \in DOMAIN outputs[l] <=> t < TurnsReturned(l)
         /\ IntKey(t) \in DOMAIN aggregation_inputs[l] <=> t < TurnsReturned(l)

C15_Witness ==
  \E l \in LineIds :
    /\ pc[l] = "raised"
    /\ line_error[l] = "CancelledError"
    /\ Len(exec_calls[l]) = 2
    /\ Len(conversation_history[l]) = 1
    /\ IntKey(1) \notin DOMAIN outputs[l]

IsPrefix(s, t) == Len(s) <= Len(t) /\ SubSeq(t, 1, Len(s)) = s

\* C16 (as claimed): within a call the history only grows, by one record
\* when an executor call returns, and nothing the executor does changes it;
\* the history published in the LineResult is the records of the line's
\* returned turns.
C16_AppendOnly ==
  [][\A l \in LineIds :
       /\ (pc[l] \in {"loop", "await", "assemble", "returned"} /\ pc'[l] # "released") =>
            /\ IsPrefix(conversation_history[l], conversation_history'[l])
            /\ conversation_history'[l] # conversation_history[l] =>
                 /\ pc[l] = "await"
                 /\ pc'[l] \in {"loop", "assemble"}
                 /\ Len(conversation_history'[l]) = Len(conversation_history[l]) + 1
       /\ pc'[l] = "returned" =>
            line_result'[l].output[StrKey(CONVERSATION_HISTORY_OUTPUT_KEY)]
              = [i \in 1..Len(exec_returns'[l]) |->
                   DictUpdate([role |-> ActiveRole(i - 1).role],
                              exec_returns'[l][i].output)]
    ]_vars

\* what the resolver and default application gave role i at the start of line l
StartInput(l, i) == ResolvedBatchInput(chat_group_roles[i], inputs[l])
\* role i has been the active role of a turn of line l
HasActed(l, i) == \E t \in 0..(Len(exec_calls[l]) - 1) : (t % NRoles) + 1 = i
InTurns(l) == pc[l] \in {"loop", "await", "assemble"}

\* C17 (as claimed): after every step of a turn, every entry of the per-role
\* resolved inputs other than the active role's history-bound key has the
\* value the resolver and default application produced at the start of the line.
C17_AsClaimed ==
  [][\A l \in LineIds :
       (pc[l] \in {"loop", "await"} /\ InTurns(l)') =>
         \A i \in 1..NRoles :
           /\ DOMAIN batch_inputs'[l][i] = DOMAIN StartInput(l, i)
           /\ \A k \in DOMAIN StartInput(l, i) :
                (i # (turn[l] % NRoles) + 1 \/ k # HistoryKeyOf(chat_group_roles[i]))
                  => batch_inputs'[l][i][k] = StartInput(l, i)[k]
    ]_vars

\* C17 (amended): during the turns of a line the per-role resolved inputs
\* differ from the resolver's start values only under history-bound keys:
\* every other key of every role keeps its start value, the history-bound
\* key of a role that has not been active yet keeps its start value, and
\* the history-bound key of every role that has been active holds the
\* line's current history.
C17_Frame ==
  \A l \in LineIds :
    InTurns(l) =>
      \A i \in 1..NRoles :
        /\ DOMAIN batch_inputs[l][i] = DOMAIN StartInput(l, i)
        /\ \A k \in DOMAIN StartInput(l, i) :
             batch_inputs[l][i][k] =
               IF k = HistoryKeyOf(chat_group_roles[i]) /\ HasActed(l, i)
                 THEN conversation_history[l]
                 ELSE StartInput(l, i)[k]

C17_Witness ==
  \E l \in LineIds :
    /\ pc[l] = "loop"
    /\ NRoles = 2
    /\ turn[l] = 2
    /\ Len(conversation_history[l]) = 2
    /\ batch_inputs[l][1][HistoryKeyOf(chat_group_roles[1])] = conversation_history[l]
    /\ \E k \in DOMAIN batch_inputs[l][1] :
         /\ k # HistoryKeyOf(chat_group_roles[1])
         /\ batch_inputs[l][1][k] = StartInput(l, 1)[k]

\* C18: with valid mappings and max_turn = M >= 1, when every executor call
\* returns, a started call ends by returning a LineResult; it has then made
\* at most M executor calls, and exactly M, with M records, when no turn's
\* output held the active role's stop signal.
C18_Terminates ==
  /\ \A l \in LineIds :
       (pc[l] = "loop" /\ max_turn >= 1) ~> (pc[l] = "returned")
  /\ [](\A l \in LineIds :
          /\ Len(exec_calls[l]) <= max_turn
          /\ (InTurns(l) /\ max_turn >= 1) => line_error[l] = "none"
          /\ pc[l] = "returned" =>
               /\ line_result[l] # None
               /\ (\A t \in 0..(TurnsReturned(l) - 1) : ~StopsAt(l, t)) =>
                    /\ TurnsReturned(l) = max_turn
                    /\ Len(conversation_history[l]) = max_turn)

C18_Witness ==
  \E l \in LineIds :
    /\ pc[l] = "returned"
    /\ max_turn = 3
    /\ Len(exec_calls[l]) = 3
    /\ \A t \in 0..2 : ~StopsAt(l, t)
    /\ line_result[l] # None
    /\ line_error[l] = "none"

Misconfigured(i) == HistoryBindings(chat_group_roles[i]) # 1
FirstMisconfigured ==
  CHOOSE i \in 1..NRoles :
    Misconfigured(i) /\ \A j \in 1..(i - 1) : ~Misconfigured(j)
HistoryErrors ==
  {"MissingConversationHistoryExpression", "MultipleConversationHistoryInputsMapping"}

\* C19: a started call raises a history-mapping error exactly when some role
\* is misconfigured, before any executor call, and the error is the one of
\* the first misconfigured role in registry order: the missing-expression
\* error when that role binds no input to the sentinel, the multiple-mappings
\* error when it binds two or more.
C19_FirstMisconfigured ==
  \A l \in LineIds :
    pc[l] \notin {"idle", "released"} =>
      IF ValidMappings
        THEN line_error[l] \notin HistoryErrors
        ELSE /\ pc[l] = "raised"
             /\ exec_calls[l] = <<>>
             /\ line_error[l] =
                  IF HistoryBindings(chat_group_roles[FirstMisconfigured]) = 0
                    THEN "MissingConversationHistoryExpression"
                    ELSE "MultipleConversationHistoryInputsMapping"

C19_Witness ==
  \E l \in LineIds :
    /\ pc[l] = "raised"
    /\ chat_group_roles = <<RoleUser, RoleTwoHistory, RoleNoHistory>>
    /\ line_error[l] = "MultipleConversationHistoryInputsMapping"

\* C20: a returned turn whose history record has the active role's stop
\* signal as its "role" value, while no value of the turn's output equals
\* the signal, does not end the loop: with turns left the call goes on to
\* the next turn.
C20_RoleFieldNoStop ==
  \A l \in LineIds :
    \A t \in 0..(TurnsReturned(l) - 1) :
      ( /\ OwnRecord(l, t).role = ActiveRole(t).stop_signal
        /\ ~StopsAt(l, t)
        /\ t + 1 < max_turn ) =>
          /\ ~(pc[l] \in {"assemble", "returned"} /\ TurnsReturned(l) = t + 1)
          /\ (pc[l] = "loop" /\ TurnsReturned(l) = t + 1) => turn[l] = t + 1

C20_Witness ==
  \E l \in LineIds :
    /\ TurnsReturned(l) = 1
    /\ ActiveRole(0).role = ActiveRole(0).stop_signal
    /\ conversation_history[l][1].role = ActiveRole(0).stop_signal
    /\ ~StopsAt(l, 0)
    /\ pc[l] = "await"
    /\ Len(exec_calls[l]) = 2

====
